---- MODULE Spec2Model ----
(***************************************************************************)
(* Model of sample.py: a script that prints its three command-line words   *)
(* or a usage line.  Text is modelled as a sequence of one-character       *)
(* strings, so that joining, separators and line ends are computed and not *)
(* assumed.                                                                *)
(***************************************************************************)
EXTENDS Integers, Sequences, FiniteSets

VARIABLES argv, stdout, stderr, pc, exit_status, calls, prints, branch, history

vars == <<argv, stdout, stderr, pc, exit_status, calls, prints, branch, history>>

\* ------------------------------------------------------------------ bounds
MaxArgs == 4        \* most positional arguments of an invocation
MaxArgLen == 1      \* longest argument built from Chars
MaxRuns == 2        \* process runs in the rerun specification
MaxRerunArgs == 4   \* most positional arguments in the rerun specification

\* ------------------------------------------------------------- text values
LF == "\n"
SP == " "

\* characters the enumerated arguments are built from: a letter and the
\* line terminator
Chars == {"a", LF}

\* the literal of line 6
YourWords == <<"Y", "o", "u", "r", " ", "w", "o", "r", "d", "s", ":">>

\* the literal of line 8
GiveWords == <<"G", "i", "v", "e", " ", "3", " ", "w", "o", "r", "d", "s", "!">>

\* argv[0] of the run `python sample.py ...`
ProgName == <<"s", "a", "m", "p", "l", "e", ".", "p", "y">>

\* arguments whose content collides with the separator of line 6 or with
\* the literal of line 8
SpecialWords == {<<SP>>, GiveWords, <<"G", "i", "v", "e">>, <<"3">>,
                 <<"w", "o", "r", "d", "s", "!">>}

StrUpTo(n) == UNION {[1..k -> Chars] : k \in 0..n}

Words == StrUpTo(MaxArgLen) \cup SpecialWords

RerunWords == {<<>>, <<"a">>}

ArgLists(W, n) == UNION {[1..k -> W] : k \in 0..n}

\* ------------------------------------------------------ Python built-ins
\* sys.argv[i], Python's zero-based indexing
sys_argv(i) == argv[i + 1]

\* len(sys.argv)
len_sys_argv == Len(argv)

RECURSIVE Join(_, _)
\* sep.join(objs)
Join(objs, sep) ==
    IF Len(objs) = 0 THEN <<>>
    ELSE IF Len(objs) = 1 THEN Head(objs)
    ELSE Head(objs) \o sep \o Join(Tail(objs), sep)

\* variant: the separator is lost
print_nosep(objs) == Join(objs, <<>>) \o <<LF>>

\* variant: the line end is lost
print_noend(objs) == Join(objs, <<SP>>)

\* the text one call print(*objs) writes: sep=" ", end="\n"
print(objs) == Join(objs, <<SP>>) \o <<LF>>

RECURSIVE Count(_, _)
\* number of occurrences of character c in text s
Count(s, c) ==
    IF Len(s) = 0 THEN 0
    ELSE (IF Head(s) = c THEN 1 ELSE 0) + Count(Tail(s), c)

\* w occurs in s as a contiguous piece
Contains(s, w) ==
    \E i \in 1..(Len(s) + 1) :
        /\ i + Len(w) - 1 <= Len(s)
        /\ SubSeq(s, i, i + Len(w) - 1) = w

StartsWith(s, p) == Len(s) >= Len(p) /\ SubSeq(s, 1, Len(p)) = p

\* ------------------------------------------------------------ the program
Launched(a) ==
    /\ argv = a
    /\ stdout = <<>>
    /\ stderr = <<>>
    /\ pc = "main"
    /\ exit_status = {}
    /\ calls = 0
    /\ prints = 0
    /\ branch = "none"

Init ==
    /\ \E a \in ArgLists(Words, MaxArgs) : Launched(<<ProgName>> \o a)
    /\ history = <<>>

InitRerun ==
    /\ \E a \in ArgLists(RerunWords, MaxRerunArgs) : Launched(<<ProgName>> \o a)
    /\ history = <<>>

\* line 11-13: the module is run as a script, so the guard holds and
\* print_words is called
Main ==
    /\ pc = "main"
    /\ pc' = "print_words"
    /\ calls' = calls + 1
    /\ UNCHANGED <<argv, stdout, stderr, exit_status, prints, branch, history>>

\* variant: four or more positional arguments also pass
test_atleast ==
    len_sys_argv >= 4

\* variant: the program name is not counted
test_off_by_one ==
    len_sys_argv = 3

\* variant: the first word must not be empty
test_nonempty ==
    len_sys_argv = 4 /\ sys_argv(1) # <<>>

\* line 5
test ==
    len_sys_argv = 4

\* an uncaught exception: traceback on stderr, exit status 1
Raise(exc) ==
    /\ stderr' = stderr \o exc
    /\ exit_status' = {1}
    /\ pc' = "done"
    /\ UNCHANGED <<argv, stdout, calls, prints, history>>

IndexError == <<"I", "n", "d", "e", "x", "E", "r", "r", "o", "r", LF>>

\* variant: the usage branch only covers too few arguments
print_words_noelse ==
    /\ pc = "print_words"
    /\ pc' = "return"
    /\ UNCHANGED <<argv, stderr, exit_status, calls, history>>
    /\ IF len_sys_argv = 4
       THEN /\ branch' = "words"
            /\ stdout' = stdout \o print(<<YourWords, sys_argv(1),
                                           sys_argv(2), sys_argv(3)>>)
            /\ prints' = prints + 1
       ELSE IF len_sys_argv < 4
       THEN /\ branch' = "usage"
            /\ stdout' = stdout \o print(<<GiveWords>>)
            /\ prints' = prints + 1
       ELSE UNCHANGED <<branch, stdout, prints>>

\* variant: the branch depends on the number of earlier runs
print_words_stateful ==
    /\ pc = "print_words"
    /\ pc' = "return"
    /\ prints' = prints + 1
    /\ UNCHANGED <<argv, stderr, exit_status, calls, history>>
    /\ IF len_sys_argv = 4 /\ Len(history) = 0
       THEN /\ branch' = "words"
            /\ stdout' = stdout \o print(<<YourWords, sys_argv(1),
                                           sys_argv(2), sys_argv(3)>>)
       ELSE /\ branch' = "usage"
            /\ stdout' = stdout \o print(<<GiveWords>>)

\* variant: the usage line goes to standard error
print_words_stderr ==
    /\ pc = "print_words"
    /\ pc' = "return"
    /\ prints' = prints + 1
    /\ UNCHANGED <<argv, exit_status, calls, history>>
    /\ IF len_sys_argv = 4
       THEN /\ branch' = "words"
            /\ stdout' = stdout \o print(<<YourWords, sys_argv(1),
                                           sys_argv(2), sys_argv(3)>>)
            /\ UNCHANGED stderr
       ELSE /\ branch' = "usage"
            /\ stderr' = stderr \o print(<<GiveWords>>)
            /\ UNCHANGED stdout

\* variant: the label is not printed
print_words_nolabel ==
    /\ pc = "print_words"
    /\ pc' = "return"
    /\ prints' = prints + 1
    /\ UNCHANGED <<argv, stderr, exit_status, calls, history>>
    /\ IF len_sys_argv = 4
       THEN /\ branch' = "words"
            /\ stdout' = stdout \o print(<<sys_argv(1), sys_argv(2),
                                           sys_argv(3)>>)
       ELSE /\ branch' = "usage"
            /\ stdout' = stdout \o print(<<GiveWords>>)

\* lines 4-8
print_words ==
    /\ pc = "print_words"
    /\ IF test
       THEN /\ branch' = "words"
            /\ IF len_sys_argv >= 4
               THEN /\ stdout' = stdout \o print(<<YourWords, sys_argv(1),
                                                   sys_argv(2), sys_argv(3)>>)
                    /\ prints' = prints + 1
                    /\ pc' = "return"
                    /\ UNCHANGED <<argv, stderr, exit_status, calls, history>>
               ELSE Raise(IndexError)
       ELSE /\ branch' = "usage"
            /\ stdout' = stdout \o print(<<GiveWords>>)
            /\ prints' = prints + 1
            /\ pc' = "return"
            /\ UNCHANGED <<argv, stderr, exit_status, calls, history>>

\* variant: print_words is called a second time before the module ends
Exit_again ==
    /\ pc = "return"
    /\ IF calls < 2
       THEN /\ pc' = "print_words"
            /\ calls' = calls + 1
            /\ UNCHANGED exit_status
       ELSE /\ pc' = "done"
            /\ exit_status' = {0}
            /\ UNCHANGED calls
    /\ UNCHANGED <<argv, stdout, stderr, prints, branch, history>>

\* end of the module after line 13: the interpreter exits with status 0
Exit ==
    /\ pc = "return"
    /\ pc' = "done"
    /\ exit_status' = {0}
    /\ UNCHANGED <<argv, stdout, stderr, calls, prints, branch, history>>

\* the finished run is recorded and a new process is started
Relaunch ==
    /\ pc = "done"
    /\ Len(history) + 1 < MaxRuns
    /\ history' = Append(history, [argv |-> argv, stdout |-> stdout,
                                   stderr |-> stderr,
                                   exit_status |-> exit_status])
    /\ \E a \in ArgLists(RerunWords, MaxRerunArgs) :
          /\ argv' = <<ProgName>> \o a
          /\ stdout' = <<>>
          /\ stderr' = <<>>
          /\ pc' = "main"
          /\ exit_status' = {}
          /\ calls' = 0
          /\ prints' = 0
          /\ branch' = "none"

Next == Main \/ print_words \/ Exit

NextRerun == Main \/ print_words \/ Exit \/ Relaunch

Spec == Init /\ [][Next]_vars

FairSpec == Init /\ [][Next]_vars /\ WF_vars(Next)

SpecRerun == InitRerun /\ [][NextRerun]_vars

\* ----------------------------------------------------------- properties
Done == pc = "done"

\* the positional arguments of the run
Positional == Len(argv) - 1

\* the usage line as it reaches standard output
GiveLine == GiveWords \o <<LF>>

\* the label followed by its separator
Label == YourWords \o <<SP>>

\* C1: with exactly three positional arguments a, b, c the output is
\* "Your words: " followed by a, b, c in order, joined by single spaces,
\* followed by a newline.
C1_WordsOutput ==
    (Done /\ Positional = 3) =>
        stdout = Label \o argv[2] \o <<SP>> \o argv[3] \o <<SP>> \o argv[4]
                       \o <<LF>>

C1_Witness ==
    /\ Done
    /\ Positional = 3
    /\ argv[2] = <<"a">>
    /\ argv[3] = <<"3">>
    /\ argv[4] = <<"G", "i", "v", "e">>
    /\ Len(stdout) = 21

\* C2 (as stated): with a number of positional arguments other than three
\* the output is the usage line and newline, and none of the supplied
\* arguments appears in the output.
C2_Original ==
    (Done /\ Positional # 3) =>
        /\ stdout = GiveLine
        /\ \A i \in 2..Len(argv) : ~Contains(stdout, argv[i])

\* C2 (amended): with a number of positional arguments other than three the
\* output is exactly the usage line and newline whatever the arguments are;
\* an argument occurs in it only when it already occurs in that fixed line.
C2_UsageOutput ==
    (Done /\ Positional # 3) =>
        /\ stdout = GiveLine
        /\ \A i \in 2..Len(argv) :
              Contains(stdout, argv[i]) => Contains(GiveLine, argv[i])

C2_Witness ==
    /\ Done
    /\ Positional = 4
    /\ argv[2] = <<"a">>
    /\ argv[5] = <<"G", "i", "v", "e">>
    /\ stdout = GiveLine

\* C3: every invocation eventually terminates normally with exit status 0,
\* and no reachable state is a non-zero exit.
C3_ExitsZero ==
    /\ [](exit_status \subseteq {0})
    /\ <>(Done /\ exit_status = {0})

C3_Witness ==
    /\ Done
    /\ exit_status = {0}
    /\ Positional = 2
    /\ branch = "usage"

\* C4 (as stated): for every argument list standard output receives exactly
\* one line terminated by a newline.
C4_Original ==
    Done =>
        /\ Len(stdout) > 0
        /\ stdout[Len(stdout)] = LF
        /\ Count(stdout, LF) = 1

ArgNewlines ==
    IF Positional = 3
    THEN Count(argv[2], LF) + Count(argv[3], LF) + Count(argv[4], LF)
    ELSE 0

\* C4 (amended): standard output receives the text of exactly one print,
\* terminated by a newline; it is exactly one line unless three arguments
\* are given and some of them contain newline characters, each of which
\* adds one more line.
C4_OnePrintLine ==
    Done =>
        /\ prints = 1
        /\ Len(stdout) > 0
        /\ stdout[Len(stdout)] = LF
        /\ Count(stdout, LF) = 1 + ArgNewlines

C4_Witness ==
    /\ Done
    /\ Positional = 3
    /\ argv[3] = <<LF>>
    /\ Count(stdout, LF) = 2

\* C5: for every length of the argument list exactly one of the two output
\* branches is taken, and there is no third outcome or failure state.
C5_Total ==
    Done =>
        /\ exit_status = {0}
        /\ stderr = <<>>
        /\ branch \in {"words", "usage"}
        /\ (branch = "words") => (StartsWith(stdout, Label) /\ stdout # GiveLine)
        /\ (branch = "usage") => (stdout = GiveLine /\ ~StartsWith(stdout, Label))

C5_Witness ==
    /\ Done
    /\ Positional = 0
    /\ branch = "usage"
    /\ stdout = GiveLine

\* C6: two runs with identical argument lists produce identical output and
\* exit status; nothing carries from one run to the next.
C6_SameRunSameOutput ==
    \A i \in 1..Len(history) :
        (Done /\ history[i].argv = argv) =>
            /\ history[i].stdout = stdout
            /\ history[i].stderr = stderr
            /\ history[i].exit_status = exit_status

C6_Witness ==
    /\ Done
    /\ Len(history) = 1
    /\ history[1].argv = argv
    /\ Positional = 3
    /\ history[1].stdout = stdout
    /\ Len(stdout) = 16

\* C7: an invocation leaves the argument list unchanged and writes to
\* standard output only; standard error and all other state stay unchanged.
C7_Frame ==
    [][argv' = argv /\ stderr' = stderr /\ history' = history]_vars

C7_Witness ==
    /\ Done
    /\ Positional = 1
    /\ argv = <<ProgName, <<"a">> >>
    /\ stdout = GiveLine
    /\ stderr = <<>>

\* C8: the branch depends only on the number of positional arguments, never
\* on their content: any three arguments (empty, containing spaces, equal to
\* the usage text) take the "Your words:" branch and are printed verbatim.
C8_CountOnly ==
    (pc \in {"return", "done"}) =>
        /\ (branch = "words") <=> (Positional = 3)
        /\ (branch = "usage") <=> (Positional # 3)
        /\ (Positional = 3) =>
              LET a == argv[2]
                  b == argv[3]
                  c == argv[4]
                  n == Len(Label)
              IN  /\ SubSeq(stdout, n + 1, n + Len(a)) = a
                  /\ SubSeq(stdout, n + Len(a) + 2, n + Len(a) + 1 + Len(b)) = b
                  /\ SubSeq(stdout, n + Len(a) + Len(b) + 3,
                            n + Len(a) + Len(b) + 2 + Len(c)) = c
                  /\ Len(stdout) = n + Len(a) + Len(b) + Len(c) + 3

C8_Witness ==
    /\ Done
    /\ Positional = 3
    /\ argv[2] = <<>>
    /\ argv[3] = <<SP>>
    /\ argv[4] = GiveWords
    /\ branch = "words"

\* C9: in one process run print_words is called once and performs exactly
\* one print, and no output is produced after it.
C9_Once ==
    /\ [](calls <= 1 /\ prints <= 1 /\ (Done => (calls = 1 /\ prints = 1)))
    /\ [][prints >= 1 => (stdout' = stdout /\ prints' = prints)]_vars

C9_Witness ==
    /\ Done
    /\ calls = 1
    /\ prints = 1
    /\ Positional = 3
    /\ argv[2] = <<LF>>

\* C10: the output is the usage line if and only if the number of
\* positional arguments is not three; the three-argument output starts with
\* "Your words: " and so never equals the usage line.
C10_Distinguishable ==
    Done =>
        /\ (stdout = GiveLine) <=> (Positional # 3)
        /\ StartsWith(stdout, Label) <=> (Positional = 3)

C10_Witness ==
    /\ Done
    /\ Positional = 3
    /\ argv[2] = <<"G", "i", "v", "e">>
    /\ argv[3] = <<"3">>
    /\ argv[4] = <<"w", "o", "r", "d", "s", "!">>
    /\ stdout # GiveLine

TypeOK ==
    /\ pc \in {"main", "print_words", "return", "done"}
    /\ branch \in {"none", "words", "usage"}
    /\ exit_status \subseteq {0, 1}
    /\ calls \in 0..1
    /\ prints \in 0..1
====
